---------------------------- MODULE Spec2Model ----------------------------
(***************************************************************************)
(* A state-machine model of the python configuration layer of ldmx-sw:     *)
(* Framework/python/ldmxcfg.py (Process, EventProcessor,                   *)
(* ConditionsObjectProvider, RandomNumberSeedService).                     *)
(*                                                                         *)
(* A configuration script is a sequence of calls.  Each action below is    *)
(* one call of the script, run to completion: either it returns or it      *)
(* raises.  A script may catch the exception and go on, so a raising call  *)
(* is a step like any other; what it did before raising stays done.        *)
(*                                                                         *)
(* Python objects live in object tables (sequences); a reference is the    *)
(* index of the object in its table and None is the reference 0.  A python *)
(* function is an operator from a "world" (the mutable state plus the flag *)
(* raised) to the world after the call.                                    *)
(*                                                                         *)
(* Module names and library paths are sequences of tokens.  "/" , ":" and  *)
(* "_" are one-character tokens; every other token stands for a run of     *)
(* characters that holds none of these three.                              *)
(***************************************************************************)
EXTENDS Integers, Sequences, FiniteSets, TLC

VARIABLES
    lastProcess,  \* Process.lastProcess: reference into processes, None = 0
    processes,    \* table of the Process objects (their attribute dicts)
    heap,         \* table of the ConditionsObjectProvider objects
    procs,        \* table of the EventProcessor objects
    fs,           \* the source file and its sibling library on disk
    now,          \* the file system's clock
    call,         \* the call the script made last, and how it ended (sub: the
                  \* exit of the compiler it ran, "not run" when it ran none;
                  \* exit: "exit 1" when the call ended in sys.exit(1);
                  \* printed: what it printed)
    lastDecl,     \* history: (objectName, className) -> provider declared last
    skimLog,      \* history: the skimConsider* calls that returned, in order
    hashOrder     \* the order this run of the interpreter iterates a set of
                  \* library paths in: python salts the hash of a string anew
                  \* at every start of the interpreter

vars == <<lastProcess, processes, heap, procs, fs, now, call, lastDecl, skimLog,
          hashOrder>>

None == 0

\* An attribute the object does not (yet) have.
NoAttr == "<no attribute>"

-----------------------------------------------------------------------------
(* Bounds of the model *)

MaxObjs == 3        \* provider objects ever allocated
MaxLibs == 3        \* entries of Process.libraries
MaxSkim == 3        \* skimConsider / skimConsiderLabelled calls
MaxProcs == 2       \* EventProcessor objects ever allocated
MaxTime == 2        \* readings of the file system's clock: 0..MaxTime
MaxAlgorithm == 5   \* setCompression algorithms 0..MaxAlgorithm
MaxLevel == 9       \* setCompression levels 0..MaxLevel
MaxNameLen == 4     \* length of the module names fed to addModule in SpecNorm
MaxHist == 2        \* histograms of all the EventProcessors together
MaxEncodedLevel == 100  \* setCompression levels 0..MaxEncodedLevel in SpecEncode

-----------------------------------------------------------------------------
(* The inputs of the calls *)

PassNames == {"sim", "reco"}
Tags == {"Default", "v1"}
ObjectNames == {"RandomNumberSeedService", "EcalGeometry"}
ClassNames == {"framework::RandomNumberSeedService", "ecal::GeometryProvider"}
Pairs == ObjectNames \X ClassNames

\* Two spellings of one submodule (docstring of addModule) and a plain module.
ModuleNames == { <<"Ecal", "/", "Event">>, <<"Ecal", ":", ":", "Event">>, <<"SimCore">> }

\* Modules the provider classes of the scripts are compiled into.
ProviderModules == { <<"Ecal">> }

\* Full paths handed to addLibrary directly.
LibraryPaths == { <<"libSimCore", ".so">> }

\* Every module name of at most n characters over the alphabet: the two
\* separators' characters, the underscore and a letter.
Alphabet == {"/", ":", "_", "E"}
RECURSIVE Words(_)
Words(n) ==
    IF n = 0 THEN { << >> }
    ELSE LET shorter == Words(n - 1)
         IN  shorter \cup {Append(u, c) : u \in shorter, c \in Alphabet}

\* skimConsider / skimConsiderLabelled: processor name and label patterns.
NamePatterns == {"foo", "bar"}
LabelPatterns == {"", "baz"}

\* setCompression: (algorithm) with the level left to its default, or
\* (algorithm, level).
CompressionArgs ==
    {<<a>> : a \in 0..MaxAlgorithm} \cup ((0..MaxAlgorithm) \X (0..MaxLevel))

\* setCompression with levels up to and past the two decimal digits that the
\* setting leaves to the level.
EncodeArgs ==
    {<<a>> : a \in 0..MaxAlgorithm} \cup ((0..MaxAlgorithm) \X (0..MaxEncodedLevel))

\* Producer(...) / Analyzer(...): one processor of a module of the installation
\* (a submodule, so that its name is normalised) and one of a library given by
\* its path.
ProcessorCalls ==
    { [cls |-> "Producer", instanceName |-> "ecalDigis",
       className |-> "ecal::EcalDigiProducer", moduleName |-> <<"Ecal", "/", "Event">>],
      [cls |-> "Analyzer", instanceName |-> "myAna",
       className |-> "ana::MyAna", moduleName |-> <<"libSimCore", ".so">>] }

\* A python int and a python list, kept apart: [int |-> n], [list |-> l].  An
\* optional parameter is << >> when it is None and <<v>> when it is v.
\* build1DHistogram: explicit edges; a (count, xmin, xmax) triple; a count with
\* xmin alone.
Build1DCalls ==
    { [name |-> "h", xlabel |-> "x", bins |-> [list |-> <<0, 5, 10>>],
       xmin |-> << >>, xmax |-> << >>],
      [name |-> "h", xlabel |-> "x", bins |-> [int |-> 3],
       xmin |-> <<0>>, xmax |-> <<4>>],
      [name |-> "g", xlabel |-> "x", bins |-> [int |-> 3],
       xmin |-> <<0>>, xmax |-> << >>] }

\* build2DHistogram: a triple on x with edges on y, and edges on x with a
\* triple on y.
Build2DCalls ==
    { [name |-> "hh", xlabel |-> "x", xbins |-> [int |-> 2], xmin |-> <<1>>,
       xmax |-> <<3>>, ylabel |-> "y", ybins |-> [list |-> <<0, 1>>],
       ymin |-> << >>, ymax |-> << >>],
      [name |-> "hh", xlabel |-> "x", xbins |-> [list |-> <<0, 1>>], xmin |-> << >>,
       xmax |-> <<3>>, ylabel |-> "y", ybins |-> [int |-> 3],
       ymin |-> <<2>>, ymax |-> <<6>>] }

\* RandomNumberSeedService.external: parameter seed.
Seeds == {1, 2}

\* makeBDTPath / makeRoCPath: the names of the data files asked for, and the
\* data files an installation may hold.
DataNames == {"v12", "v14"}
DataFiles ==
    {<<"@CMAKE_INSTALL_PREFIX@/data/Ecal/", n, ".onnx">> : n \in DataNames}
    \cup {<<"@CMAKE_INSTALL_PREFIX@/data/Ecal/", n, ".csv">> : n \in DataNames}
    \cup {<<"@CMAKE_INSTALL_PREFIX@/data/Ecal/cellxy.txt">>}

\* EventProcessor.from_file: the calls the scripts make.  cls is the class it
\* is called on; "None" is python's None, the default of class_name and of
\* instance_name; kwargs are the names of the configuration parameters given.
FromFileCalls ==
    { [cls |-> "Analyzer", class_name |-> "None", instance_name |-> "None",
       kwargs |-> << >>],
      [cls |-> "Analyzer", class_name |-> "ana::MyAna", instance_name |-> "None",
       kwargs |-> <<"threshold">>],
      [cls |-> "Producer", class_name |-> "ana::MyAna", instance_name |-> "myana",
       kwargs |-> << >>] }
ExitStatus == {0, 1}

\* The source file 'MyAnalyzer.cxx' of from_file: its stem, and the library
\* src.parent / f'lib{src.stem}.so' beside it.
SourceStem == "MyAnalyzer"
SourceLibrary == <<"/", "work", "/", "lib", SourceStem, ".so">>

\* The library paths of the scripts that render the Process, and the orders
\* in which a run of the interpreter may iterate a set of them.
RenderedPaths ==
    { <<"@CMAKE_INSTALL_PREFIX@/lib/lib", "Framework", ".so">>,
      <<"@CMAKE_INSTALL_PREFIX@/lib/lib", "Ecal", ".so">>,
      <<"libSimCore", ".so">> }
HashOrders ==
    {o \in [1..Cardinality(RenderedPaths) -> RenderedPaths] :
        \A x \in RenderedPaths : \E i \in DOMAIN o : o[i] = x}

-----------------------------------------------------------------------------
(* Strings *)

\* str.replace('/', '_')
ReplaceSlash(s) == [i \in 1..Len(s) |-> IF s[i] = "/" THEN "_" ELSE s[i]]

\* str.replace('::', '_'): left to right, occurrences that do not overlap.
RECURSIVE ReplaceColons(_)
ReplaceColons(s) ==
    IF Len(s) = 0 THEN << >>
    ELSE IF Len(s) >= 2 /\ s[1] = ":" /\ s[2] = ":"
         THEN <<"_">> \o ReplaceColons(SubSeq(s, 3, Len(s)))
         ELSE <<s[1]>> \o ReplaceColons(Tail(s))

\* A plausible slip: every single ':' becomes '_'.
actual_module_name_each_colon(module) ==
    [i \in 1..Len(module) |->
        IF module[i] \in {"/", ":"} THEN "_" ELSE module[i]]

\* module.replace('/','_').replace('::','_')
actual_module_name(module) == ReplaceColons(ReplaceSlash(module))

\* '@CMAKE_INSTALL_PREFIX@/lib/lib%s.so' % (actual_module_name)
InstalledLibrary(name) == <<"@CMAKE_INSTALL_PREFIX@/lib/lib">> \o name \o <<".so">>

-----------------------------------------------------------------------------
(* The world a python function works on *)

World ==
    [ lastProcess |-> lastProcess, processes |-> processes, heap |-> heap,
      procs |-> procs, fs |-> fs, sub |-> "not run", raised |-> FALSE,
      exit |-> "no", printed |-> << >> ]

Raise(w) == [w EXCEPT !.raised = TRUE]

\* The Process that Process.lastProcess refers to.
TheProcess(w) == w.processes[w.lastProcess]

-----------------------------------------------------------------------------
(* class Process: the static registration functions *)

\* A plausible slip: the library is dropped when it is already listed.
addLibrary_dedup(w, lib) ==
    IF w.lastProcess # None
    THEN IF \E i \in 1..Len(TheProcess(w).libraries) : TheProcess(w).libraries[i] = lib
         THEN w
         ELSE [w EXCEPT !.processes[w.lastProcess].libraries = Append(@, lib)]
    ELSE Raise(w)

\* A plausible slip: without a Process the call returns silently.
addLibrary_silent(w, lib) ==
    IF w.lastProcess # None
    THEN [w EXCEPT !.processes[w.lastProcess].libraries = Append(@, lib)]
    ELSE w

\* Process.addLibrary(lib)
addLibrary(w, lib) ==
    IF w.lastProcess # None
    THEN [w EXCEPT !.processes[w.lastProcess].libraries = Append(@, lib)]
    ELSE Raise(w)

\* Process.addModule(module)
addModule(w, module) ==
    addLibrary(w, InstalledLibrary(actual_module_name(module)))

\* ConditionsObjectProvider.setTag
setTag(w, cop, newtag) == [w EXCEPT !.heap[cop].tagName = newtag]

\* A plausible slip: two providers of different python classes are never equal.
cop_eq_same_class(a, b) ==
    a.cls = b.cls /\ a.objectName = b.objectName /\ a.className = b.className

\* ConditionsObjectProvider.__eq__ (both operands are providers)
cop_eq(a, b) == a.objectName = b.objectName /\ a.className = b.className

\* The index of the first declared provider equal to cop, 0 when there is none:
\* the for loop of declareConditionsObjectProvider.
FirstEqual(w, cop) ==
    LET cops == TheProcess(w).conditionsObjectProviders
        hits == {i \in 1..Len(cops) : cop_eq(w.heap[cop], w.heap[cops[i]])}
    IN  IF hits = {} THEN 0 ELSE CHOOSE i \in hits : \A j \in hits : i <= j

\* A plausible slip: the equal provider is removed and the new one appended.
declareConditionsObjectProvider_move(w, cop) ==
    IF w.lastProcess # None
    THEN LET w1 == setTag(w, cop, TheProcess(w).conditionsGlobalTag)
             cops == TheProcess(w1).conditionsObjectProviders
             index == FirstEqual(w1, cop)
             rest == SubSeq(cops, 1, index - 1) \o SubSeq(cops, index + 1, Len(cops))
         IN  IF index # 0
             THEN [w1 EXCEPT !.processes[w.lastProcess].conditionsObjectProviders =
                                 Append(rest, cop)]
             ELSE [w1 EXCEPT !.processes[w.lastProcess].conditionsObjectProviders =
                                 Append(@, cop)]
    ELSE Raise(w)

\* A plausible slip: an equal provider already declared keeps its place.
declareConditionsObjectProvider_keep(w, cop) ==
    IF w.lastProcess # None
    THEN LET w1 == setTag(w, cop, TheProcess(w).conditionsGlobalTag)
             index == FirstEqual(w1, cop)
         IN  IF index # 0
             THEN w1
             ELSE [w1 EXCEPT !.processes[w.lastProcess].conditionsObjectProviders =
                                 Append(@, cop)]
    ELSE Raise(w)

\* A plausible slip: the provider is not stamped with the global tag.
declareConditionsObjectProvider_nostamp(w, cop) ==
    IF w.lastProcess # None
    THEN LET index == FirstEqual(w, cop)
         IN  IF index # 0
             THEN [w EXCEPT !.processes[w.lastProcess].conditionsObjectProviders[index] = cop]
             ELSE [w EXCEPT !.processes[w.lastProcess].conditionsObjectProviders =
                                Append(@, cop)]
    ELSE Raise(w)

\* Process.declareConditionsObjectProvider(cop)
declareConditionsObjectProvider(w, cop) ==
    IF w.lastProcess # None
    THEN LET w1 == setTag(w, cop, TheProcess(w).conditionsGlobalTag)
             index == FirstEqual(w1, cop)
         IN  IF index # 0
             THEN [w1 EXCEPT !.processes[w.lastProcess].conditionsObjectProviders[index] = cop]
             ELSE [w1 EXCEPT !.processes[w.lastProcess].conditionsObjectProviders =
                                 Append(@, cop)]
    ELSE Raise(w)

-----------------------------------------------------------------------------
(* class ConditionsObjectProvider, class RandomNumberSeedService *)

\* object.__new__: a provider object with no attribute yet; its reference is
\* Len(heap) of the world returned.
NewProvider(w, cls) ==
    [w EXCEPT !.heap = Append(@,
        [ cls |-> cls, objectName |-> NoAttr, className |-> NoAttr,
          tagName |-> NoAttr, seedMode |-> NoAttr, seed |-> NoAttr ])]

\* ConditionsObjectProvider.__init__(self, objectName, className, moduleName)
ConditionsObjectProvider_init(w, self, objectName, className, moduleName) ==
    LET w1 == [w EXCEPT !.heap[self].objectName = objectName,
                        !.heap[self].className = className,
                        !.heap[self].tagName = ""]
        w2 == addModule(w1, moduleName)
    IN  IF w2.raised THEN w2 ELSE declareConditionsObjectProvider(w2, self)

\* A plausible slip: time() forgets the seed of an earlier external().
time_forgets_seed(w, self) ==
    [w EXCEPT !.heap[self].seedMode = "time", !.heap[self].seed = -1]

\* RandomNumberSeedService.run / external / time
run(w, self) == [w EXCEPT !.heap[self].seedMode = "run"]
external(w, self, seed) ==
    [w EXCEPT !.heap[self].seedMode = "external", !.heap[self].seed = seed]
time(w, self) == [w EXCEPT !.heap[self].seedMode = "time"]

\* A plausible slip: the constructor does not choose the mode.
RandomNumberSeedService_init_no_mode(w, self) ==
    LET w1 == ConditionsObjectProvider_init(w, self, "RandomNumberSeedService",
                  "framework::RandomNumberSeedService", <<"Framework">>)
    IN  IF w1.raised THEN w1
        ELSE [w1 EXCEPT !.heap[self].seedMode = "", !.heap[self].seed = -1]

\* RandomNumberSeedService.__init__(self)
RandomNumberSeedService_init(w, self) ==
    LET w1 == ConditionsObjectProvider_init(w, self, "RandomNumberSeedService",
                  "framework::RandomNumberSeedService", <<"Framework">>)
    IN  IF w1.raised THEN w1
        ELSE run([w1 EXCEPT !.heap[self].seedMode = "", !.heap[self].seed = -1], self)

-----------------------------------------------------------------------------
(* Ecal/python/makePath.py *)

\* os.path.isfile(fullPath)
isfile(w, fullPath) == fullPath \in w.fs.data

\* print('ERROR: ... file ... does not exist.'); sys.exit(1)
ErrorExit(w, what, fullPath) ==
    [w EXCEPT !.printed = <<"ERROR: ", what, " '">> \o fullPath \o <<"' does not exist.">>,
              !.raised = TRUE, !.exit = "exit 1"]

\* The full paths the three functions build.
BDTPath(BDTname) == <<"@CMAKE_INSTALL_PREFIX@/data/Ecal/", BDTname, ".onnx">>
CellXYPath == <<"@CMAKE_INSTALL_PREFIX@/data/Ecal/cellxy.txt">>
RoCPath(RoCname) == <<"@CMAKE_INSTALL_PREFIX@/data/Ecal/", RoCname, ".csv">>

\* A plausible slip: the error is printed and the path returned all the same.
makeBDTPath_no_exit(w, BDTname) ==
    IF ~isfile(w, BDTPath(BDTname))
    THEN [w EXCEPT !.printed = <<"ERROR: ", "ONNX model file", " '">>
                                  \o BDTPath(BDTname) \o <<"' does not exist.">>]
    ELSE w

\* makeBDTPath(BDTname), makeCellXYPath(), makeRoCPath(RoCname): the world
\* after the call; a call that did not exit returns the full path.
makeBDTPath(w, BDTname) ==
    IF ~isfile(w, BDTPath(BDTname))
    THEN ErrorExit(w, "ONNX model file", BDTPath(BDTname))
    ELSE w

makeCellXYPath(w) ==
    IF ~isfile(w, CellXYPath)
    THEN ErrorExit(w, "Cell xy text file", CellXYPath)
    ELSE w

makeRoCPath(w, RoCname) ==
    IF ~isfile(w, RoCPath(RoCname))
    THEN ErrorExit(w, "RoC csv file", RoCPath(RoCname))
    ELSE w

-----------------------------------------------------------------------------
(* class EventProcessor *)

\* object.__new__: a processor object of class cls with no attribute yet.
NewProcessor(w, cls) ==
    [w EXCEPT !.procs = Append(@,
        [ cls |-> cls, instanceName |-> NoAttr, className |-> NoAttr,
          histograms |-> NoAttr, config |-> << >> ])]

\* str.endswith('.so')
EndsWithSo(path) == Len(path) > 0 /\ path[Len(path)] = ".so"

\* A plausible slip: the processor puts itself into the sequence.
EventProcessor_init_sequenced(w, self, instanceName, className, moduleName) ==
    LET w1 == [w EXCEPT !.procs[self].instanceName = instanceName,
                        !.procs[self].className = className,
                        !.procs[self].histograms = << >>]
        w2 == IF EndsWithSo(moduleName)
              THEN addLibrary(w1, moduleName)
              ELSE addModule(w1, moduleName)
    IN  IF w2.raised THEN w2
        ELSE [w2 EXCEPT !.processes[w2.lastProcess].sequence = Append(@, self)]

\* EventProcessor.__init__(self, instanceName, className, moduleName)
EventProcessor_init(w, self, instanceName, className, moduleName) ==
    LET w1 == [w EXCEPT !.procs[self].instanceName = instanceName,
                        !.procs[self].className = className,
                        !.procs[self].histograms = << >>]
    IN  IF EndsWithSo(moduleName)
        THEN addLibrary(w1, moduleName)
        ELSE addModule(w1, moduleName)

\* LDMX.Framework.histogram.uniform_binning(count, min, max): count edges
\* spanning [min, max], equally spaced.
uniform_binning(bins, min, max) ==
    [list |-> [i \in 1..bins.int |-> min + (i - 1) * ((max - min) \div (bins.int - 1))]]

\* LDMX.Framework.histogram.histogram(name, xlabel, bins_x): the descriptor of a
\* 1D histogram; it has no second axis.
NoAxis == "<no axis>"
histogram1D(name, xlabel, bins_x) ==
    [name |-> name, xlabel |-> xlabel, bins_x |-> bins_x,
     ylabel |-> NoAxis, bins_y |-> [list |-> << >>]]

\* LDMX.Framework.histogram.histogram(name, xlabel, bins_x, ylabel, bins_y)
histogram2D(name, xlabel, bins_x, ylabel, bins_y) ==
    [name |-> name, xlabel |-> xlabel, bins_x |-> bins_x,
     ylabel |-> ylabel, bins_y |-> bins_y]

\* A plausible slip: one of xmin, xmax is enough for the uniform binning (the
\* limit not given is taken as 0).
build1DHistogram_either(w, self, name, xlabel, bins, xmin, xmax) ==
    LET lo == IF xmin # << >> THEN xmin[1] ELSE 0
        hi == IF xmax # << >> THEN xmax[1] ELSE 0
        theBinEdges == IF xmin # << >> \/ xmax # << >>
                       THEN uniform_binning(bins, lo, hi)
                       ELSE bins
    IN  [w EXCEPT !.procs[self].histograms =
                      Append(@, histogram1D(name, xlabel, theBinEdges))]

\* EventProcessor.build1DHistogram(self, name, xlabel, bins, xmin, xmax)
build1DHistogram(w, self, name, xlabel, bins, xmin, xmax) ==
    LET theBinEdges == IF xmin # << >> /\ xmax # << >>
                       THEN uniform_binning(bins, xmin[1], xmax[1])
                       ELSE bins
    IN  [w EXCEPT !.procs[self].histograms =
                      Append(@, histogram1D(name, xlabel, theBinEdges))]

\* EventProcessor.build2DHistogram(self, name, xlabel, xbins, xmin, xmax,
\*                                 ylabel, ybins, ymin, ymax)
build2DHistogram(w, self, name, xlabel, xbins, xmin, xmax, ylabel, ybins, ymin, ymax) ==
    LET theBinEdgesX == IF xmin # << >> /\ xmax # << >>
                        THEN uniform_binning(xbins, xmin[1], xmax[1])
                        ELSE xbins
        theBinEdgesY == IF ymin # << >> /\ ymax # << >>
                        THEN uniform_binning(ybins, ymin[1], ymax[1])
                        ELSE ybins
    IN  [w EXCEPT !.procs[self].histograms =
                      Append(@, histogram2D(name, xlabel, theBinEdgesX,
                                            ylabel, theBinEdgesY))]

\* A plausible slip: the library is also rebuilt when the two times are equal.
NeedsCompile_or_equal(f) == ~f.libExists \/ f.srcMtime >= f.libMtime

\* not lib.is_file() or src.stat().st_mtime > lib.stat().st_mtime
NeedsCompile(f) == ~f.libExists \/ f.srcMtime > f.libMtime

\* A plausible slip: subprocess.run without check=True.
Compile_unchecked(w, exit, t) ==
    IF exit = 0
    THEN [w EXCEPT !.fs.libExists = TRUE, !.fs.libMtime = t, !.sub = "exit 0"]
    ELSE [w EXCEPT !.sub = "exit 1"]

\* subprocess.run(['g++', ..., '-o', str(lib), str(src), ...], check=True): the
\* compiler is outside the program; it exits 0 having written the library at
\* time t, or exits nonzero, and then check=True raises.
Compile(w, exit, t) ==
    IF exit = 0
    THEN [w EXCEPT !.fs.libExists = TRUE, !.fs.libMtime = t, !.sub = "exit 0"]
    ELSE Raise([w EXCEPT !.sub = "exit 1"])

\* for cfg_name, cfg_val in config_kwargs.items(): setattr(instance, ...)
SetConfig(w, self, kwargs) == [w EXCEPT !.procs[self].config = kwargs]

\* A plausible slip: the instance is made, and its library registered, before
\* the library is compiled.
from_file_register_first(w, cls, class_name, instance_name, kwargs, exit, t) ==
    IF ~w.fs.srcExists
    THEN Raise(w)
    ELSE LET className == IF class_name = "None" THEN SourceStem ELSE class_name
             instanceName == IF instance_name = "None" THEN className
                             ELSE instance_name
             w0 == NewProcessor(w, cls)
             self == Len(w0.procs)
             w1 == EventProcessor_init(w0, self, instanceName, className,
                                       SourceLibrary)
             w2 == IF w1.raised THEN w1
                   ELSE IF NeedsCompile(w1.fs) THEN Compile(w1, exit, t) ELSE w1
         IN  IF w2.raised THEN w2 ELSE SetConfig(w2, self, kwargs)

\* EventProcessor.from_file(cls, source_file, class_name, needs, instance_name,
\* compile_notice, **config_kwargs) for the source file of the model; exit is
\* the exit status of the compiler should it run, t the time it then writes the
\* library.  The instance returned is the last of the table procs.  needs and
\* compile_notice shape only the compiler's command line and what is printed.
from_file(w, cls, class_name, instance_name, kwargs, exit, t) ==
    IF ~w.fs.srcExists
    THEN Raise(w)
    ELSE LET className == IF class_name = "None" THEN SourceStem ELSE class_name
             instanceName == IF instance_name = "None" THEN className
                             ELSE instance_name
             w1 == IF NeedsCompile(w.fs) THEN Compile(w, exit, t) ELSE w
         IN  IF w1.raised THEN w1
             ELSE LET w2 == NewProcessor(w1, cls)
                      self == Len(w2.procs)
                      w3 == EventProcessor_init(w2, self, instanceName, className,
                                                SourceLibrary)
                  IN  IF w3.raised THEN w3 ELSE SetConfig(w3, self, kwargs)

-----------------------------------------------------------------------------
(* class Process: construction and the methods *)

\* The attributes Process.__init__ sets before it registers itself.
NewProcess(passName) ==
    [ passName |-> passName, maxEvents |-> -1, maxTriesPerEvent |-> 1, run |-> -1,
      inputFiles |-> << >>, outputFiles |-> << >>, sequence |-> << >>,
      keep |-> << >>, libraries |-> << >>, skimDefaultIsKeep |-> TRUE,
      skimRules |-> << >>, logFrequency |-> -1, termLogLevel |-> 2,
      fileLogLevel |-> 0, logFileName |-> "", compressionSetting |-> 9,
      histogramFile |-> "", conditionsGlobalTag |-> "Default",
      conditionsObjectProviders |-> << >>, tree_name |-> "LDMX_Events",
      randomNumberSeedService |-> None ]

\* A plausible slip: the constructor without its guard on lastProcess.
Process_init_unguarded(w, passName) ==
    LET self == Len(w.processes) + 1
        w1 == [w EXCEPT !.processes = Append(@, NewProcess(passName)),
                        !.lastProcess = self]
        w2 == NewProvider(w1, "RandomNumberSeedService")
        rnss == Len(w2.heap)
        w3 == RandomNumberSeedService_init(w2, rnss)
    IN  [w3 EXCEPT !.processes[self].randomNumberSeedService = rnss]

\* Process.__init__(self, passName).  The Process object enters the table when
\* its attributes are set: the object of a constructor that raised at once has
\* no attribute and nothing refers to it.
Process_init(w, passName) ==
    IF w.lastProcess # None
    THEN Raise(w)
    ELSE LET self == Len(w.processes) + 1
             w1 == [w EXCEPT !.processes = Append(@, NewProcess(passName)),
                             !.lastProcess = self]
             w2 == NewProvider(w1, "RandomNumberSeedService")
             rnss == Len(w2.heap)
             w3 == RandomNumberSeedService_init(w2, rnss)
         IN  [w3 EXCEPT !.processes[self].randomNumberSeedService = rnss]

\* The attribute dictionary (__dict__) of a provider: the attributes its
\* constructors have set so far.
ProviderDict(obj) ==
    LET keys == (IF obj.objectName # NoAttr
                 THEN {"objectName", "className", "tagName"} ELSE {})
                \cup (IF obj.seedMode # NoAttr THEN {"seedMode", "seed"} ELSE {})
    IN  [k \in keys |-> obj[k]]

\* The attribute dictionary of a processor: the attributes __init__ sets and
\* the configuration parameters from_file has set (names only in this model).
ProcessorDict(obj) ==
    LET given == {obj.config[i] : i \in 1..Len(obj.config)}
    IN  [k \in {"instanceName", "className", "histograms"} \cup given |->
            IF k \in given THEN <<"value of", k>> ELSE obj[k]]

\* A plausible slip: only 'libraries' is skipped.
keys_to_skip_libraries == {"libraries"}

\* keys_to_skip = [ 'histograms' , 'libraries' ]
keys_to_skip == {"histograms", "libraries"}

\* extract(obj) of parameterDump for an object with a __dict__ none of whose
\* values is a list or has a __dict__ itself: a provider, or a processor
\* without its histograms.
extract_dict(dict) == [k \in DOMAIN dict \ keys_to_skip |-> dict[k]]

\* extract(self) of parameterDump: the lists conditionsObjectProviders and
\* sequence are mapped element by element, the object randomNumberSeedService
\* becomes its mapping, every other attribute is a plain value or a list of
\* plain values.
parameterDump(w, self) ==
    LET dict == w.processes[self]
        provider(o) == extract_dict(ProviderDict(w.heap[o]))
        processor(q) == extract_dict(ProcessorDict(w.procs[q]))
    IN  [k \in DOMAIN dict \ keys_to_skip |->
            IF k = "conditionsObjectProviders"
            THEN [i \in 1..Len(dict[k]) |-> provider(dict[k][i])]
            ELSE IF k = "sequence"
            THEN [i \in 1..Len(dict[k]) |-> processor(dict[k][i])]
            ELSE IF k = "randomNumberSeedService"
            THEN provider(dict[k])
            ELSE dict[k]]

\* The concatenation of a sequence of sequences.
RECURSIVE Flatten(_)
Flatten(ss) == IF Len(ss) = 0 THEN << >> ELSE Head(ss) \o Flatten(Tail(ss))

\* A string is rendered as the sequence of its lines, a line as the sequence
\* of the pieces it is put together from.
\* for k, v in self.__dict__.items(): the keys in the order of their insertion.
ParameterLines(keys, dict) ==
    IF Len(keys) = 0 THEN << >>
    ELSE << <<"   Parameters:">> >> \o
         [i \in 1..Len(keys) |-> <<"    ", keys[i], " : ", dict[keys[i]]>>]

\* ConditionsObjectProvider.__str__(self)
cop_str(obj) ==
    LET dict == ProviderDict(obj)
        keys == SelectSeq(<<"objectName", "className", "tagName", "seedMode", "seed">>,
                          LAMBDA k : k \in DOMAIN dict)
        shown == [k \in DOMAIN dict |-> IF k = "seed" THEN ToString(dict[k]) ELSE dict[k]]
    IN  << <<"">>,
           <<"  ConditionsObjectProvider(", obj.objectName, " of class ", obj.className,
             ", tag='", obj.tagName, "')">> >>
        \o ParameterLines(keys, shown)

\* Producer.__str__(self) / Analyzer.__str__(self); str(self.histograms) is
\* '[]' for the empty list.
proc_str(obj) ==
    LET dict == ProcessorDict(obj)
        keys == <<"instanceName", "className", "histograms">> \o obj.config
        shown == [k \in DOMAIN dict |->
                    IF k = "histograms"
                    THEN (IF dict[k] = << >> THEN "[]" ELSE "[...]")
                    ELSE IF k \in {"instanceName", "className"} THEN dict[k]
                    ELSE "..."]
    IN  << <<"">>,
           <<"  ", obj.cls, "(", obj.instanceName, " of class ", obj.className, ")">> >>
        \o ParameterLines(keys, shown)

\* for afile in set(self.libraries): each distinct path once, in the order the
\* string hashes of this run of the interpreter give.
SetOfLibraries(order, libraries) ==
    SelectSeq(order, LAMBDA x : \E i \in 1..Len(libraries) : libraries[i] = x)

\* A plausible slip: the libraries are listed as they are, not as a set.
LibraryLines_list(order, libraries) ==
    [i \in 1..Len(libraries) |-> <<"  ">> \o libraries[i]]

\* msg += '\n  ' + afile, for afile in set(self.libraries)
LibraryLines(order, libraries) ==
    LET files == SetOfLibraries(order, libraries)
    IN  [i \in 1..Len(files) |-> <<"  ">> \o files[i]]

\* Process.__str__(self), under the order of iteration of this run
Process_str(w, self, order) ==
    LET p == w.processes[self]
        cops == p.conditionsObjectProviders
        nIn == Len(p.inputFiles)
        nOut == Len(p.outputFiles)
        nRules == Len(p.skimRules) \div 2
    IN  << <<"Process with pass name '", p.passName, "'">> >>
        \o (IF p.run > 0 THEN << <<" using run number ", ToString(p.run)>> >> ELSE << >>)
        \o (IF p.maxEvents > 0
            THEN << <<" Maximum events to process: ", ToString(p.maxEvents)>> >>
            ELSE << <<" No limit on maximum events to process">> >>)
        \o (IF Len(cops) > 0
            THEN << <<" conditionsObjectProviders:">> >>
                 \o Flatten([i \in 1..Len(cops) |-> cop_str(w.heap[cops[i]])])
            ELSE << >>)
        \o << <<"">>, <<" Processor sequence:">> >>
        \o Flatten([i \in 1..Len(p.sequence) |-> proc_str(w.procs[p.sequence[i]])])
        \o (IF nIn > 0
            THEN IF nOut = nIn
                 THEN << <<" Files:">> >> \o
                      [i \in 1..nIn |-> <<"  '", p.inputFiles[i], "' -> '",
                                           p.outputFiles[i], "'">>]
                 ELSE << <<" Input files:">> >> \o
                      [i \in 1..nIn |-> <<"  ", p.inputFiles[i]>>] \o
                      (IF nOut > 0 THEN << <<" Output file: ", p.outputFiles[1]>> >>
                       ELSE << >>)
            ELSE IF nOut > 0 THEN << <<" Output file: ", p.outputFiles[1]>> >>
                 ELSE << >>)
        \o << <<" Skim rules:">>,
               IF p.skimDefaultIsKeep THEN <<"  Default: keep the event">>
               ELSE <<"  Default: drop the event">> >>
        \o [i \in 1..nRules |->
               IF p.skimRules[2 * i] = ""
               THEN <<"  Listen to hints from processors with names matching '",
                      p.skimRules[2 * i - 1], "'">>
               ELSE <<"  Listen to hints with labels matching '", p.skimRules[2 * i],
                      "' from processors with names matching '",
                      p.skimRules[2 * i - 1], "'">>]
        \o (IF Len(p.keep) > 0
            THEN << <<" Rules for keeping previous products:">> >> \o
                 [i \in 1..Len(p.keep) |-> <<"  ", p.keep[i]>>]
            ELSE << >>)
        \o (IF Len(p.libraries) > 0
            THEN << <<" Shared libraries to load:">> >> \o LibraryLines(order, p.libraries)
            ELSE << >>)

\* A plausible slip: the tag of the process is set, the providers keep theirs.
setConditionsGlobalTag_process_only(w, self, tag) ==
    [w EXCEPT !.processes[self].conditionsGlobalTag = tag]

\* Process.setConditionsGlobalTag(self, tag)
setConditionsGlobalTag(w, self, tag) ==
    LET cops == w.processes[self].conditionsObjectProviders
        listed == {cops[i] : i \in 1..Len(cops)}
    IN  [w EXCEPT !.processes[self].conditionsGlobalTag = tag,
                  !.heap = [o \in 1..Len(w.heap) |->
                               IF o \in listed
                               THEN [w.heap[o] EXCEPT !.tagName = tag]
                               ELSE w.heap[o]]]

\* Process.skimDefaultIsSave(self) / Process.skimDefaultIsDrop(self)
skimDefaultIsSave(w, self) == [w EXCEPT !.processes[self].skimDefaultIsKeep = TRUE]
skimDefaultIsDrop(w, self) == [w EXCEPT !.processes[self].skimDefaultIsKeep = FALSE]

\* A plausible slip: the empty label pattern is not appended.
skimConsider_name_only(w, self, namePat) ==
    [w EXCEPT !.processes[self].skimRules = Append(@, namePat)]

\* Process.skimConsider(self, namePat)
skimConsider(w, self, namePat) ==
    [w EXCEPT !.processes[self].skimRules = Append(Append(@, namePat), "")]

\* Process.skimConsiderLabelled(self, namePat, labelPat)
skimConsiderLabelled(w, self, namePat, labelPat) ==
    [w EXCEPT !.processes[self].skimRules = Append(Append(@, namePat), labelPat)]

\* A plausible slip: the algorithm is weighted by 10.
setCompression_by_ten(w, self, algorithm, level) ==
    [w EXCEPT !.processes[self].compressionSetting = algorithm * 10 + level]

\* A plausible slip: the two parameters change places.
setCompression_level_first(w, self, algorithm, level) ==
    [w EXCEPT !.processes[self].compressionSetting = level * 100 + algorithm]

\* Process.setCompression(self, algorithm, level)
setCompression(w, self, algorithm, level) ==
    [w EXCEPT !.processes[self].compressionSetting = algorithm * 100 + level]

\* The parameter level of setCompression: level=9 when the call gives none.
LevelOf(args) == IF Len(args) >= 2 THEN args[2] ELSE 9

-----------------------------------------------------------------------------
(* The calls of a script *)

Returned(name, args, w, ret) ==
    [ name |-> name, args |-> args, raised |-> w.raised,
      ret |-> IF w.raised THEN None ELSE ret, sub |-> w.sub, exit |-> w.exit,
      printed |-> w.printed ]

\* What is not a call of a function of the program: a start, a statement of
\* the script, a change of the files.
Outside(name) ==
    [name |-> name, args |-> << >>, raised |-> FALSE, ret |-> None, sub |-> "not run",
     exit |-> "no", printed |-> << >>]

\* The world after the call becomes the state.
Commit(w) ==
    /\ lastProcess' = w.lastProcess
    /\ processes' = w.processes
    /\ heap' = w.heap
    /\ procs' = w.procs
    /\ fs' = w.fs

\* The world stays within the bounds of the model (not bounds of the program).
Bounded(w) ==
    /\ Len(w.heap) <= MaxObjs
    /\ Len(w.procs) <= MaxProcs
    /\ IF w.lastProcess = None THEN TRUE
       ELSE /\ Len(TheProcess(w).libraries) <= MaxLibs
            /\ Len(TheProcess(w).skimRules) <= 2 * MaxSkim

\* The last declaration of each identity, after a call that declared cop.
Declared(w, cop) ==
    IF w.raised THEN lastDecl
    ELSE [lastDecl EXCEPT ![<<w.heap[cop].objectName, w.heap[cop].className>>] = cop]

\* p = Process(passName)
CallProcess(passName) ==
    LET w == Process_init(World, passName)
    IN  /\ Bounded(w)
        /\ Commit(w)
        /\ call' = Returned("Process", <<passName>>, w, w.lastProcess)
        /\ lastDecl' = IF w.raised THEN lastDecl ELSE Declared(w, Len(w.heap))
        /\ UNCHANGED <<hashOrder, now, skimLog>>

\* Process.addLibrary(lib)
CallAddLibrary(lib) ==
    LET w == addLibrary(World, lib)
    IN  /\ Bounded(w)
        /\ Commit(w)
        /\ call' = Returned("addLibrary", <<lib>>, w, None)
        /\ UNCHANGED <<hashOrder, now, lastDecl, skimLog>>

\* Process.addModule(module)
CallAddModule(module) ==
    LET w == addModule(World, module)
    IN  /\ Bounded(w)
        /\ Commit(w)
        /\ call' = Returned("addModule", <<module>>, w, None)
        /\ UNCHANGED <<hashOrder, now, lastDecl, skimLog>>

\* Process.declareConditionsObjectProvider(cop), cop an object made earlier
CallDeclare(cop) ==
    LET w == declareConditionsObjectProvider(World, cop)
    IN  /\ heap[cop].objectName # NoAttr
        /\ Commit(w)
        /\ call' = Returned("declareConditionsObjectProvider", <<cop>>, w, None)
        /\ lastDecl' = Declared(w, cop)
        /\ UNCHANGED <<hashOrder, now, skimLog>>

\* cop = ConditionsObjectProvider(objectName, className, moduleName)
CallNewProvider(objectName, className, moduleName) ==
    LET w0 == NewProvider(World, "ConditionsObjectProvider")
        self == Len(w0.heap)
        w == ConditionsObjectProvider_init(w0, self, objectName, className, moduleName)
    IN  /\ Bounded(w)
        /\ Commit(w)
        /\ call' = [Returned("ConditionsObjectProvider",
                        <<objectName, className, moduleName>>, w, self)
                    EXCEPT !.ret = self]
        /\ lastDecl' = Declared(w, self)
        /\ UNCHANGED <<hashOrder, now, skimLog>>

\* rnss = RandomNumberSeedService()
CallNewSeedService ==
    LET w0 == NewProvider(World, "RandomNumberSeedService")
        self == Len(w0.heap)
        w == RandomNumberSeedService_init(w0, self)
    IN  /\ Bounded(w)
        /\ Commit(w)
        /\ call' = [Returned("RandomNumberSeedService", << >>, w, self)
                    EXCEPT !.ret = self]
        /\ lastDecl' = Declared(w, self)
        /\ UNCHANGED <<hashOrder, now, skimLog>>

\* A seed service whose constructor has set its mode and seed.
IsSeedService(h, o) ==
    h[o].cls = "RandomNumberSeedService" /\ h[o].seedMode # NoAttr

\* rnss.run(), rnss.external(seed), rnss.time()
CallRun(self) ==
    LET w == run(World, self)
    IN  /\ IsSeedService(heap, self)
        /\ Commit(w)
        /\ call' = Returned("run", <<self>>, w, None)
        /\ UNCHANGED <<hashOrder, now, lastDecl, skimLog>>

CallExternal(self, seed) ==
    LET w == external(World, self, seed)
    IN  /\ IsSeedService(heap, self)
        /\ Commit(w)
        /\ call' = Returned("external", <<self, seed>>, w, None)
        /\ UNCHANGED <<hashOrder, now, lastDecl, skimLog>>

CallTime(self) ==
    LET w == time(World, self)
    IN  /\ IsSeedService(heap, self)
        /\ Commit(w)
        /\ call' = Returned("time", <<self>>, w, None)
        /\ UNCHANGED <<hashOrder, now, lastDecl, skimLog>>

\* The lists of distinct processors made so far.
Sequences ==
    {q \in UNION {[1..n -> 1..Len(procs)] : n \in 0..Len(procs)} :
        \A i, j \in DOMAIN q : q[i] = q[j] => i = j}

\* p.sequence = [ ... ]
SetSequence(seq) ==
    /\ lastProcess # None
    /\ processes' = [processes EXCEPT ![lastProcess].sequence = seq]
    /\ call' = [Outside("sequence =") EXCEPT !.args = <<seq>>]
    /\ UNCHANGED <<hashOrder, lastProcess, heap, procs, fs, now, lastDecl, skimLog>>

\* p.parameterDump()
CallParameterDump ==
    LET w == World
    IN  /\ lastProcess # None
        /\ Commit(w)
        /\ call' = Returned("parameterDump", << >>, w, parameterDump(w, lastProcess))
        /\ UNCHANGED <<hashOrder, now, lastDecl, skimLog>>

\* str(p)
CallStr ==
    LET w == World
    IN  /\ lastProcess # None
        /\ Commit(w)
        /\ call' = Returned("__str__", << >>, w, Process_str(w, lastProcess, hashOrder))
        /\ UNCHANGED <<hashOrder, now, lastDecl, skimLog>>

\* The interpreter has not exited.
Running == call.exit = "no"

\* makeBDTPath(BDTname) / makeRoCPath(RoCname) / makeCellXYPath()
CallMakeBDTPath(BDTname) ==
    LET w == makeBDTPath(World, BDTname)
    IN  /\ Running
        /\ Commit(w)
        /\ call' = Returned("makeBDTPath", <<BDTname>>, w, BDTPath(BDTname))
        /\ UNCHANGED <<hashOrder, now, lastDecl, skimLog>>

CallMakeRoCPath(RoCname) ==
    LET w == makeRoCPath(World, RoCname)
    IN  /\ Running
        /\ Commit(w)
        /\ call' = Returned("makeRoCPath", <<RoCname>>, w, RoCPath(RoCname))
        /\ UNCHANGED <<hashOrder, now, lastDecl, skimLog>>

CallMakeCellXYPath ==
    LET w == makeCellXYPath(World)
    IN  /\ Running
        /\ Commit(w)
        /\ call' = Returned("makeCellXYPath", << >>, w, CellXYPath)
        /\ UNCHANGED <<hashOrder, now, lastDecl, skimLog>>

\* p.setConditionsGlobalTag(tag)
CallSetConditionsGlobalTag(tag) ==
    LET w == setConditionsGlobalTag(World, lastProcess, tag)
    IN  /\ lastProcess # None
        /\ Commit(w)
        /\ call' = Returned("setConditionsGlobalTag", <<tag>>, w, None)
        /\ UNCHANGED <<hashOrder, now, lastDecl, skimLog>>

\* p.skimDefaultIsSave() / p.skimDefaultIsDrop()
CallSkimDefaultIsSave ==
    LET w == skimDefaultIsSave(World, lastProcess)
    IN  /\ lastProcess # None
        /\ Commit(w)
        /\ call' = Returned("skimDefaultIsSave", << >>, w, None)
        /\ UNCHANGED <<hashOrder, now, lastDecl, skimLog>>

CallSkimDefaultIsDrop ==
    LET w == skimDefaultIsDrop(World, lastProcess)
    IN  /\ lastProcess # None
        /\ Commit(w)
        /\ call' = Returned("skimDefaultIsDrop", << >>, w, None)
        /\ UNCHANGED <<hashOrder, now, lastDecl, skimLog>>

\* p.skimConsider(namePat)
CallSkimConsider(namePat) ==
    LET w == skimConsider(World, lastProcess, namePat)
    IN  /\ lastProcess # None
        /\ Len(skimLog) < MaxSkim
        /\ Bounded(w)
        /\ Commit(w)
        /\ call' = Returned("skimConsider", <<namePat>>, w, None)
        /\ skimLog' = Append(skimLog, <<namePat, "">>)
        /\ UNCHANGED <<hashOrder, now, lastDecl>>

\* p.skimConsiderLabelled(namePat, labelPat)
CallSkimConsiderLabelled(namePat, labelPat) ==
    LET w == skimConsiderLabelled(World, lastProcess, namePat, labelPat)
    IN  /\ lastProcess # None
        /\ Len(skimLog) < MaxSkim
        /\ Bounded(w)
        /\ Commit(w)
        /\ call' = Returned("skimConsiderLabelled", <<namePat, labelPat>>, w, None)
        /\ skimLog' = Append(skimLog, <<namePat, labelPat>>)
        /\ UNCHANGED <<hashOrder, now, lastDecl>>

\* p.setCompression(algorithm) / p.setCompression(algorithm, level)
CallSetCompression(args) ==
    LET w == setCompression(World, lastProcess, args[1], LevelOf(args))
    IN  /\ lastProcess # None
        /\ Commit(w)
        /\ call' = Returned("setCompression", args, w, None)
        /\ UNCHANGED <<hashOrder, now, lastDecl, skimLog>>

\* Process.addModule(module), once per script: the module names of SpecNorm
\* are many.
CallAddModuleOnce(module) ==
    /\ IF lastProcess = None THEN TRUE
       ELSE Len(processes[lastProcess].libraries) <= 1
    /\ CallAddModule(module)

\* cls.from_file('MyAnalyzer.cxx', class_name, [], instance_name, ..., **kwargs)
CallFromFile(cls, class_name, instance_name, kwargs, exit) ==
    LET w == from_file(World, cls, class_name, instance_name, kwargs, exit, now)
    IN  /\ Bounded(w)
        /\ Commit(w)
        /\ call' = Returned("from_file", <<cls, class_name, instance_name, kwargs>>,
                            w, Len(w.procs))
        /\ UNCHANGED <<hashOrder, now, lastDecl, skimLog>>

\* proc = Producer(instanceName, className, moduleName), or Analyzer(...)
CallNewProcessor(cls, instanceName, className, moduleName) ==
    LET w0 == NewProcessor(World, cls)
        self == Len(w0.procs)
        w == EventProcessor_init(w0, self, instanceName, className, moduleName)
    IN  /\ Bounded(w)
        /\ Commit(w)
        /\ call' = Returned(cls, <<instanceName, className, moduleName>>, w, self)
        /\ UNCHANGED <<hashOrder, now, lastDecl, skimLog>>

\* The histograms of the processors 1..n together, and room for one more
\* within the bounds of the model.
RECURSIVE Histograms(_)
Histograms(n) ==
    IF n = 0 THEN 0 ELSE Histograms(n - 1) + Len(procs[n].histograms)
HistogramRoom == Histograms(Len(procs)) < MaxHist

\* proc.build1DHistogram(name, xlabel, bins, xmin, xmax), on the processor the
\* script made last
CallBuild1DHistogram(a) ==
    LET self == Len(procs)
        w == build1DHistogram(World, self, a.name, a.xlabel, a.bins, a.xmin, a.xmax)
    IN  /\ self > 0
        /\ HistogramRoom
        /\ Commit(w)
        /\ call' = Returned("build1DHistogram", <<self, a>>, w, None)
        /\ UNCHANGED <<hashOrder, now, lastDecl, skimLog>>

\* proc.build2DHistogram(name, xlabel, xbins, xmin, xmax, ylabel, ybins, ymin, ymax)
CallBuild2DHistogram(a) ==
    LET self == Len(procs)
        w == build2DHistogram(World, self, a.name, a.xlabel, a.xbins, a.xmin, a.xmax,
                              a.ylabel, a.ybins, a.ymin, a.ymax)
    IN  /\ self > 0
        /\ HistogramRoom
        /\ Commit(w)
        /\ call' = Returned("build2DHistogram", <<self, a>>, w, None)
        /\ UNCHANGED <<hashOrder, now, lastDecl, skimLog>>

-----------------------------------------------------------------------------
(* The surroundings of the script: the user's files, the clock *)

\* The user writes (creates or edits) the source file.
WriteSource ==
    /\ fs' = [fs EXCEPT !.srcExists = TRUE, !.srcMtime = now]
    /\ call' = Outside("(user writes the source file)")
    /\ UNCHANGED <<hashOrder, lastProcess, processes, heap, procs, now, lastDecl, skimLog>>

\* The user removes the library, as the docstring of from_file advises.
RemoveLibrary ==
    /\ fs.libExists
    /\ fs' = [fs EXCEPT !.libExists = FALSE, !.libMtime = 0]
    /\ call' = Outside("(user removes the library)")
    /\ UNCHANGED <<hashOrder, lastProcess, processes, heap, procs, now, lastDecl, skimLog>>

\* The installation gains or loses a data file.
InstallData(file) ==
    /\ file \notin fs.data
    /\ fs' = [fs EXCEPT !.data = @ \cup {file}]
    /\ UNCHANGED <<lastProcess, processes, heap, procs, now, call, lastDecl, skimLog,
                   hashOrder>>

RemoveData(file) ==
    /\ file \in fs.data
    /\ fs' = [fs EXCEPT !.data = @ \ {file}]
    /\ UNCHANGED <<lastProcess, processes, heap, procs, now, call, lastDecl, skimLog,
                   hashOrder>>

\* Time passes.
Tick ==
    /\ now < MaxTime
    /\ now' = now + 1
    /\ call' = Outside("(time passes)")
    /\ UNCHANGED <<hashOrder, lastProcess, processes, heap, procs, fs, lastDecl, skimLog>>

\* The interpreter starts: no object yet, no call made.
Started(lp, ps, h, pr, c, ld, sl) ==
    /\ lp = None
    /\ ps = << >>
    /\ h = << >>
    /\ pr = << >>
    /\ c = Outside("start")
    /\ ld = [p \in Pairs |-> None]
    /\ sl = << >>

\* The interpreter ends and the script is run again: python salts the hashes
\* of the strings anew; the files stay.
NewRun ==
    /\ Started(lastProcess', processes', heap', procs', call', lastDecl', skimLog')
    /\ hashOrder' \in HashOrders
    /\ UNCHANGED <<fs, now>>

-----------------------------------------------------------------------------
(* The registry: Process, libraries, providers and tags *)

\* The specifications that never render a Process run under one order of
\* iteration; InitAnyOrder draws it.
Init ==
    /\ Started(lastProcess, processes, heap, procs, call, lastDecl, skimLog)
    /\ fs = [srcExists |-> FALSE, srcMtime |-> 0, libExists |-> FALSE, libMtime |-> 0,
             data |-> {}]
    /\ now = 0
    /\ hashOrder = CHOOSE o \in HashOrders : TRUE

Next ==
    \/ \E passName \in PassNames : CallProcess(passName)
    \/ \E cop \in 1..Len(heap) : CallDeclare(cop)
    \/ \E objectName \in ObjectNames, className \in ClassNames,
          moduleName \in ProviderModules :
            CallNewProvider(objectName, className, moduleName)
    \/ CallNewSeedService
    \/ \E tag \in Tags : CallSetConditionsGlobalTag(tag)

Spec == Init /\ [][Next]_vars

-----------------------------------------------------------------------------
(* The libraries: what each registration appends to Process.libraries *)

\* The one provider class of the scripts of this specification.
LibObjectNames == {"EcalGeometry"}
LibClassNames == {"ecal::GeometryProvider"}

NextLib ==
    \/ \E passName \in PassNames : CallProcess(passName)
    \/ \E lib \in LibraryPaths : CallAddLibrary(lib)
    \/ \E module \in ModuleNames : CallAddModule(module)
    \/ \E cop \in 1..Len(heap) : CallDeclare(cop)
    \/ \E objectName \in LibObjectNames, className \in LibClassNames,
          moduleName \in ProviderModules :
            CallNewProvider(objectName, className, moduleName)

SpecLib == Init /\ [][NextLib]_vars

-----------------------------------------------------------------------------
(* Processors compiled from a source file *)

NextFile ==
    \/ \E passName \in PassNames : CallProcess(passName)
    \/ \E a \in FromFileCalls, exit \in ExitStatus :
            CallFromFile(a.cls, a.class_name, a.instance_name, a.kwargs, exit)
    \/ WriteSource
    \/ RemoveLibrary
    \/ Tick

SpecFile == Init /\ [][NextFile]_vars

-----------------------------------------------------------------------------
(* Module names: addModule on every name of at most MaxNameLen characters *)

NextNorm ==
    \/ \E passName \in PassNames : CallProcess(passName)
    \/ \E module \in Words(MaxNameLen) : CallAddModuleOnce(module)

SpecNorm == Init /\ [][NextNorm]_vars

-----------------------------------------------------------------------------
(* Skim rules *)

NextSkim ==
    \/ \E passName \in PassNames : CallProcess(passName)
    \/ \E namePat \in NamePatterns : CallSkimConsider(namePat)
    \/ \E namePat \in NamePatterns, labelPat \in LabelPatterns :
          CallSkimConsiderLabelled(namePat, labelPat)
    \/ CallSkimDefaultIsSave
    \/ CallSkimDefaultIsDrop

SpecSkim == Init /\ [][NextSkim]_vars

-----------------------------------------------------------------------------
(* Compression settings *)

NextCompression ==
    \/ \E passName \in PassNames : CallProcess(passName)
    \/ \E args \in CompressionArgs : CallSetCompression(args)
    \/ \E namePat \in NamePatterns : CallSkimConsider(namePat)

SpecCompression == Init /\ [][NextCompression]_vars

-----------------------------------------------------------------------------
(* The encoding of the compression setting: levels of up to three digits *)

NextEncode ==
    \/ \E passName \in PassNames : CallProcess(passName)
    \/ \E args \in EncodeArgs : CallSetCompression(args)

SpecEncode == Init /\ [][NextEncode]_vars

-----------------------------------------------------------------------------
(* Processors and their histograms *)

NextHist ==
    \/ \E passName \in PassNames : CallProcess(passName)
    \/ \E a \in ProcessorCalls :
          CallNewProcessor(a.cls, a.instanceName, a.className, a.moduleName)
    \/ \E a \in Build1DCalls : CallBuild1DHistogram(a)
    \/ \E a \in Build2DCalls : CallBuild2DHistogram(a)

SpecHist == Init /\ [][NextHist]_vars

-----------------------------------------------------------------------------
(* The seed service: its modes, and the providers of its identity *)

\* The pass name has no part in what the seed service does: one is enough.
NextSeed ==
    \/ CallProcess("sim")
    \/ CallNewSeedService
    \/ \E moduleName \in ProviderModules :
          CallNewProvider("RandomNumberSeedService",
                          "framework::RandomNumberSeedService", moduleName)
    \/ \E cop \in 1..Len(heap) : CallDeclare(cop)
    \/ \E self \in 1..Len(heap) : CallRun(self)
    \/ \E self \in 1..Len(heap), seed \in Seeds : CallExternal(self, seed)
    \/ \E self \in 1..Len(heap) : CallTime(self)

SpecSeed == Init /\ [][NextSeed]_vars

-----------------------------------------------------------------------------
(* The dump of the parameters *)

\* What a histogram holds has no part in the dump: one booking is enough.
NextDump ==
    \/ CallProcess("sim")
    \/ \E a \in ProcessorCalls :
          CallNewProcessor(a.cls, a.instanceName, a.className, a.moduleName)
    \/ \E a \in {c \in Build1DCalls : c.xmin = << >>} : CallBuild1DHistogram(a)
    \/ \E seq \in Sequences : SetSequence(seq)
    \/ CallParameterDump

SpecDump == Init /\ [][NextDump]_vars

-----------------------------------------------------------------------------
(* The rendering of a Process and its libraries, over runs of the interpreter *)

InitAnyOrder ==
    /\ Started(lastProcess, processes, heap, procs, call, lastDecl, skimLog)
    /\ fs = [srcExists |-> FALSE, srcMtime |-> 0, libExists |-> FALSE, libMtime |-> 0,
             data |-> {}]
    /\ now = 0
    /\ hashOrder \in HashOrders

NextStr ==
    \/ CallProcess("sim")
    \/ \E lib \in LibraryPaths : CallAddLibrary(lib)
    \/ \E module \in ProviderModules : CallAddModule(module)
    \/ \E objectName \in LibObjectNames, className \in LibClassNames,
          moduleName \in ProviderModules :
            CallNewProvider(objectName, className, moduleName)
    \/ \E a \in {c \in ProcessorCalls : EndsWithSo(c.moduleName)} :
          CallNewProcessor(a.cls, a.instanceName, a.className, a.moduleName)
    \/ CallStr
    \/ NewRun

SpecStr == InitAnyOrder /\ [][NextStr]_vars

-----------------------------------------------------------------------------
(* The paths of the installed data files of the Ecal *)

NextPath ==
    \/ \E BDTname \in DataNames : CallMakeBDTPath(BDTname)
    \/ \E RoCname \in DataNames : CallMakeRoCPath(RoCname)
    \/ CallMakeCellXYPath
    \/ \E file \in DataFiles : InstallData(file)
    \/ \E file \in DataFiles : RemoveData(file)
    \/ NewRun

SpecPath == Init /\ [][NextPath]_vars

-----------------------------------------------------------------------------
(* Shorthands of the properties *)

\* The registered providers of the one Process, before and after a step.
Providers == processes[lastProcess].conditionsObjectProviders
ProvidersAfter == processes'[lastProcess'].conditionsObjectProviders

\* The (objectName, className) of provider o in table h.
Identity(h, o) == <<h[o].objectName, h[o].className>>

\* The calls that run declareConditionsObjectProvider on a provider.
DeclaringCalls ==
    {"declareConditionsObjectProvider", "ConditionsObjectProvider",
     "RandomNumberSeedService"}

\* The provider a declaring call declared.
DeclaredBy(c) ==
    IF c.name = "declareConditionsObjectProvider" THEN c.args[1] ELSE c.ret

-----------------------------------------------------------------------------
(* Process construction *)

\* C1: once a Process exists, a call of the Process constructor raises and
\* changes nothing (the reference lastProcess, the Process objects with their
\* libraries and providers, the provider objects); a construction succeeds only
\* when there was no Process, and a Process once there stays, so at most one
\* construction succeeds.
C1_SecondProcessRaises ==
    [][ /\ (lastProcess # None /\ call'.name = "Process") =>
              /\ call'.raised
              /\ call'.ret = None
              /\ lastProcess' = lastProcess
              /\ processes' = processes
              /\ heap' = heap
              /\ procs' = procs
        /\ (call'.name = "Process" /\ ~call'.raised) => lastProcess = None
        /\ lastProcess # None => lastProcess' = lastProcess
        /\ Len(processes') <= 1
      ]_vars

\* A second construction, under another pass name, raised after providers had
\* been registered with the first Process.
C1_Witness ==
    /\ call.name = "Process"
    /\ call.raised
    /\ lastProcess # None
    /\ processes[lastProcess].passName # call.args[1]
    /\ Len(Providers) >= 2
    /\ Len(processes[lastProcess].libraries) >= 2

-----------------------------------------------------------------------------
(* Registration without a Process *)

\* C2: while Process.lastProcess is None, addLibrary, addModule and
\* declareConditionsObjectProvider raise and change nothing: lastProcess stays
\* None and no object changes, so the provider passed keeps its tagName.
C2_NoProcessRaises ==
    [][ (/\ lastProcess = None
         /\ call'.name \in {"addLibrary", "addModule",
                            "declareConditionsObjectProvider"}) =>
            /\ call'.raised
            /\ lastProcess' = None
            /\ processes' = processes
            /\ heap' = heap
            /\ (call'.name = "declareConditionsObjectProvider" =>
                   heap'[call'.args[1]].tagName = heap[call'.args[1]].tagName)
      ]_vars

\* declareConditionsObjectProvider raised for a provider while there was no
\* Process, and the provider still has the tag '' of its construction.
C2_Witness ==
    /\ lastProcess = None
    /\ call.name = "declareConditionsObjectProvider"
    /\ call.raised
    /\ heap[call.args[1]].tagName = ""

-----------------------------------------------------------------------------
(* Declaring providers *)

\* C3: a declaration of cop that returns puts cop at the index of the declared
\* provider with cop's (objectName, className) and leaves the length and every
\* other entry as they were; when there is no such provider, cop is appended.
C3_ReplaceInPlaceOrAppend ==
    [][ (/\ lastProcess # None
         /\ call'.name \in DeclaringCalls
         /\ ~call'.raised) =>
            LET cop == DeclaredBy(call')
                old == Providers
                new == ProvidersAfter
                same(i) == Identity(heap', old[i]) = Identity(heap', cop)
            IN  IF \E i \in 1..Len(old) : same(i)
                THEN /\ Len(new) = Len(old)
                     /\ \A i \in 1..Len(old) :
                           new[i] = IF same(i) THEN cop ELSE old[i]
                ELSE new = Append(old, cop)
      ]_vars

\* The third provider made took the place of the first of two declared ones.
C3_Witness ==
    /\ lastProcess # None
    /\ call.name = "ConditionsObjectProvider"
    /\ ~call.raised
    /\ call.ret = 3
    /\ Providers = <<3, 2>>

\* C4: no two declared providers have the same (objectName, className),
\* whatever their python class and tag, and the provider declared for an
\* identity is the one declared last with it.
C4_NoDuplicateIdentity ==
    lastProcess # None =>
        /\ \A i, j \in 1..Len(Providers) :
              Identity(heap, Providers[i]) = Identity(heap, Providers[j]) => i = j
        /\ \A i \in 1..Len(Providers) :
              lastDecl[Identity(heap, Providers[i])] = Providers[i]

\* A provider of the base class is declared under the identity of the seed
\* service, which is of another class, carries another tag and is no longer
\* declared.
C4_Witness ==
    /\ lastProcess # None
    /\ \E i \in 1..Len(Providers) : \E o \in 1..Len(heap) :
          /\ o # Providers[i]
          /\ \A j \in 1..Len(Providers) : Providers[j] # o
          /\ Identity(heap, o) = Identity(heap, Providers[i])
          /\ heap[o].cls # heap[Providers[i]].cls
          /\ heap[o].tagName # heap[Providers[i]].tagName

\* C5: every declared provider carries the global tag of the Process, and
\* setConditionsGlobalTag(t) leaves t as that tag.
C5_TagsFollowGlobalTag ==
    lastProcess # None =>
        /\ \A i \in 1..Len(Providers) :
              heap[Providers[i]].tagName = processes[lastProcess].conditionsGlobalTag
        /\ call.name = "setConditionsGlobalTag" =>
              processes[lastProcess].conditionsGlobalTag = call.args[1]

\* The tag was changed with two providers declared.
C5_Witness ==
    /\ lastProcess # None
    /\ call.name = "setConditionsGlobalTag"
    /\ processes[lastProcess].conditionsGlobalTag = "v1"
    /\ Len(Providers) >= 2
    /\ \A i \in 1..Len(Providers) : heap[Providers[i]].tagName = "v1"

-----------------------------------------------------------------------------
(* EventProcessor.from_file *)

\* C6: called for a source file that exists, from_file runs the compiler if and
\* only if the library beside the source is absent or the source's mtime is
\* strictly greater than the library's; otherwise nothing is compiled, the
\* library on disk is left as it is and is the one the processor is given.
C6_CompileIffAbsentOrStale ==
    [][ (call'.name = "from_file" /\ fs.srcExists) =>
            /\ (call'.sub # "not run") <=>
                   (~fs.libExists \/ fs.srcMtime > fs.libMtime)
            /\ (fs.libExists /\ fs.libMtime >= fs.srcMtime) =>
                   /\ call'.sub = "not run"
                   /\ fs' = fs
                   /\ (~call'.raised =>
                          /\ Len(processes'[lastProcess'].libraries) =
                                Len(processes[lastProcess].libraries) + 1
                          /\ processes'[lastProcess'].libraries[
                                Len(processes'[lastProcess'].libraries)] = SourceLibrary)
      ]_vars

\* from_file returned a processor without compiling: the library was written
\* at the very time the source was.
C6_Witness ==
    /\ call.name = "from_file"
    /\ ~call.raised
    /\ call.sub = "not run"
    /\ fs.srcExists /\ fs.libExists
    /\ fs.srcMtime = fs.libMtime
    /\ fs.srcMtime > 0

\* C7: from_file raises, without running the compiler, when the source is not
\* an existing file, and raises when the compiler exits with a nonzero status;
\* either way it returns no processor, makes none, appends nothing to
\* Process.libraries, and deletes no file (no call of from_file deletes one).
C7_FromFileFailures ==
    [][ call'.name = "from_file" =>
            /\ ~fs.srcExists =>
                   /\ call'.raised
                   /\ call'.sub = "not run"
            /\ call'.sub = "exit 1" => call'.raised
            /\ (~fs.srcExists \/ call'.sub = "exit 1") =>
                   /\ call'.ret = None
                   /\ procs' = procs
                   /\ processes' = processes
                   /\ lastProcess' = lastProcess
            /\ fs.srcExists => fs'.srcExists
            /\ fs.libExists => fs'.libExists
      ]_vars

\* The compiler failed on a source newer than the library there is, with a
\* Process to register with; the library is still there.
C7_Witness ==
    /\ call.name = "from_file"
    /\ call.raised
    /\ call.sub = "exit 1"
    /\ lastProcess # None
    /\ fs.libExists
    /\ fs.srcMtime > fs.libMtime

-----------------------------------------------------------------------------
(* Process.addModule *)

\* How often character c occurs in s.
Count(s, c) == Cardinality({i \in 1..Len(s) : s[i] = c})

\* The characters of s that are no separator character and no underscore.
IsLetter(c) == c \notin {"/", ":", "_"}
Letters(s) == SelectSeq(s, IsLetter)

\* The library appended last.
LastLibrary ==
    processes[lastProcess].libraries[Len(processes[lastProcess].libraries)]

\* C8: addModule(m) appends '<install_prefix>/lib/lib<M>.so', where M is m with
\* every '/' and every '::' replaced by '_': M holds no '/' and no '::', keeps
\* the other characters of m in their order, has one more '_' than m for each
\* '/' and each '::' replaced, and is left as it is by the same replacement;
\* 'Ecal/Event', 'Ecal::Event' and 'Ecal_Event' give the one path.
C8_ModuleNameNormalised ==
    (call.name = "addModule" /\ ~call.raised) =>
        LET m == call.args[1]
            path == LastLibrary
            M == SubSeq(path, 2, Len(path) - 1)
            colons == Count(m, ":") - Count(M, ":")
        IN  /\ Len(path) >= 2
            /\ path[1] = "@CMAKE_INSTALL_PREFIX@/lib/lib"
            /\ path[Len(path)] = ".so"
            /\ Count(M, "/") = 0
            /\ \A i \in 1..(Len(M) - 1) : ~(M[i] = ":" /\ M[i + 1] = ":")
            /\ Letters(M) = Letters(m)
            /\ colons >= 0 /\ colons % 2 = 0
            /\ Count(M, "_") = Count(m, "_") + Count(m, "/") + colons \div 2
            /\ Len(M) = Len(m) - colons \div 2
            /\ actual_module_name(M) = M
            /\ m \in { <<"E", "/", "E">>, <<"E", ":", ":", "E">>, <<"E", "_", "E">> }
                  => M = <<"E", "_", "E">>

\* addModule was called with the namespace spelling of a submodule and the
\* library appended is the one of the underscore spelling.
C8_Witness ==
    /\ call.name = "addModule"
    /\ ~call.raised
    /\ call.args[1] = <<"E", ":", ":", "E">>
    /\ LastLibrary = <<"@CMAKE_INSTALL_PREFIX@/lib/lib", "E", "_", "E", ".so">>

-----------------------------------------------------------------------------
(* Skim rules and compression *)

\* The flat list of the pairs of log, in order.
Flat(log) ==
    [i \in 1..(2 * Len(log)) |-> log[(i + 1) \div 2][IF i % 2 = 1 THEN 1 ELSE 2]]

\* C9: skimRules is the concatenation, in call order, of (n, '') for each
\* skimConsider(n) and (n, l) for each skimConsiderLabelled(n, l); its length is
\* even, twice the number of these calls.
C9_SkimRulesAreTheCalls ==
    lastProcess # None =>
        /\ processes[lastProcess].skimRules = Flat(skimLog)
        /\ Len(processes[lastProcess].skimRules) = 2 * Len(skimLog)
        /\ Len(processes[lastProcess].skimRules) % 2 = 0

\* skimConsider('foo') then skimConsiderLabelled('bar', 'baz').
C9_Witness ==
    /\ lastProcess # None
    /\ call.name = "skimConsiderLabelled"
    /\ skimLog = << <<"foo", "">>, <<"bar", "baz">> >>
    /\ processes[lastProcess].skimRules = <<"foo", "", "bar", "baz">>

\* C10: setCompression(algorithm, level) leaves algorithm*100 + level in
\* compressionSetting, level being 9 when omitted, and changes nothing else;
\* (2, 9) gives 209 and (0, 0) gives 0; a new Process has compressionSetting 9.
C10_CompressionSetting ==
    [][ /\ call'.name = "setCompression" =>
              /\ ~call'.raised
              /\ processes' =
                    [processes EXCEPT ![lastProcess].compressionSetting =
                        call'.args[1] * 100 +
                        (IF Len(call'.args) = 2 THEN call'.args[2] ELSE 9)]
              /\ lastProcess' = lastProcess
              /\ heap' = heap /\ procs' = procs /\ fs' = fs
              /\ call'.args = <<2, 9>> =>
                    processes'[lastProcess].compressionSetting = 209
              /\ call'.args = <<2>> =>
                    processes'[lastProcess].compressionSetting = 209
              /\ call'.args = <<0, 0>> =>
                    processes'[lastProcess].compressionSetting = 0
        /\ (call'.name = "Process" /\ ~call'.raised) =>
              processes'[lastProcess'].compressionSetting = 9
      ]_vars

\* setCompression(2), the level omitted, on a Process with a skim rule.
C10_Witness ==
    /\ lastProcess # None
    /\ call.name = "setCompression"
    /\ call.args = <<2>>
    /\ processes[lastProcess].compressionSetting = 209
    /\ Len(processes[lastProcess].skimRules) = 2

-----------------------------------------------------------------------------
(* The compression setting as an encoding *)

\* C11: the encoding of setCompression loses nothing on its range: after a
\* call with an algorithm >= 0 and a level in 0..99 (given, or the default),
\* the algorithm is compressionSetting div 100 and the level is
\* compressionSetting mod 100, so no two such pairs share a setting.
C11_EncodingLosesNothing ==
    (/\ call.name = "setCompression"
     /\ call.args[1] >= 0
     /\ LevelOf(call.args) \in 0..99)
    => LET setting == processes[lastProcess].compressionSetting
       IN  /\ setting \div 100 = call.args[1]
           /\ setting % 100 = LevelOf(call.args)

\* The largest level of the range, with the largest algorithm of the model.
C11_Witness ==
    /\ call.name = "setCompression"
    /\ call.args = <<MaxAlgorithm, 99>>
    /\ processes[lastProcess].compressionSetting = MaxAlgorithm * 100 + 99

-----------------------------------------------------------------------------
(* Histograms of a processor *)

\* The edges the two build*Histogram functions are to give one axis.
EdgesOf(bins, min, max) ==
    IF min # << >> /\ max # << >> THEN uniform_binning(bins, min[1], max[1]) ELSE bins

\* C12: a call of build1DHistogram or build2DHistogram appends exactly one
\* descriptor to the end of the histograms of its processor and changes
\* nothing else (the earlier descriptors and their order, the other
\* attributes, the other processors); on each axis the edges of the descriptor
\* are the bins argument itself unless both limits of that axis are given, and
\* then they are the uniform binning of (bins, min, max).
C12_HistogramAppended ==
    [][ IF call'.name \in {"build1DHistogram", "build2DHistogram"}
        THEN LET self == call'.args[1]
                 a == call'.args[2]
                 old == procs[self].histograms
                 new == procs'[self].histograms
                 h == new[Len(new)]
             IN  /\ ~call'.raised
                 /\ Len(new) = Len(old) + 1
                 /\ SubSeq(new, 1, Len(old)) = old
                 /\ procs' = [procs EXCEPT ![self].histograms = new]
                 /\ h.name = a.name /\ h.xlabel = a.xlabel
                 /\ IF call'.name = "build1DHistogram"
                    THEN h.bins_x = EdgesOf(a.bins, a.xmin, a.xmax)
                    ELSE /\ h.bins_x = EdgesOf(a.xbins, a.xmin, a.xmax)
                         /\ h.ylabel = a.ylabel
                         /\ h.bins_y = EdgesOf(a.ybins, a.ymin, a.ymax)
        ELSE TRUE ]_vars

\* A processor with two histograms: the first booked with a count and xmin
\* alone, so its edges are the count itself; the second, just booked, with a
\* (count, xmin, xmax) triple, so its edges are uniform.
C12_Witness ==
    /\ call.name = "build1DHistogram"
    /\ Len(procs) >= 1
    /\ Len(procs[1].histograms) = 2
    /\ procs[1].histograms[1].bins_x = [int |-> 3]
    /\ procs[1].histograms[2].bins_x = [list |-> <<0, 2, 4>>]

-----------------------------------------------------------------------------
(* Construction of a processor *)

\* C13: the construction of a Producer or an Analyzer while a Process exists
\* returns, appends exactly one entry to Process.libraries (the moduleName
\* itself when it ends in '.so', else the installed library of the normalised
\* module name) and changes no other attribute of the Process (sequence and
\* conditionsObjectProviders among them) and no provider.
C13_ProcessorRegistersLibraryOnly ==
    [][ IF call'.name \in {"Producer", "Analyzer"} /\ lastProcess # None
        THEN LET moduleName == call'.args[3]
                 entry == IF moduleName[Len(moduleName)] = ".so"
                          THEN moduleName
                          ELSE InstalledLibrary(actual_module_name(moduleName))
             IN  /\ ~call'.raised
                 /\ lastProcess' = lastProcess
                 /\ processes' = [processes EXCEPT
                                     ![lastProcess].libraries = Append(@, entry)]
                 /\ heap' = heap
        ELSE TRUE ]_vars

\* A Producer of the submodule Ecal/Event was made: its installed library is
\* the last of the libraries and the sequence is empty.
C13_Witness ==
    /\ call.name = "Producer"
    /\ ~call.raised
    /\ lastProcess # None
    /\ LET p == processes[lastProcess]
       IN  /\ p.libraries[Len(p.libraries)] =
                  <<"@CMAKE_INSTALL_PREFIX@/lib/lib", "Ecal", "_", "Event", ".so">>
           /\ p.sequence = << >>
           /\ Len(p.conditionsObjectProviders) = 1

-----------------------------------------------------------------------------
(* The Process just constructed *)

\* C14: right after a Process constructor returned, Process.lastProcess is the
\* new Process; its conditionsObjectProviders holds exactly one provider, the
\* object its attribute randomNumberSeedService holds, which has the identity
\* of the seed service, seedMode 'run', seed -1 and tagName 'Default', the
\* global tag; and its libraries holds exactly the Framework library.
C14_FreshProcess ==
    (call.name = "Process" /\ ~call.raised)
    => /\ lastProcess = Len(processes)
       /\ call.ret = lastProcess
       /\ LET p == processes[lastProcess]
              rnss == p.randomNumberSeedService
          IN  /\ p.passName = call.args[1]
              /\ p.conditionsGlobalTag = "Default"
              /\ p.conditionsObjectProviders = <<rnss>>
              /\ rnss \in 1..Len(heap)
              /\ heap[rnss].cls = "RandomNumberSeedService"
              /\ heap[rnss].objectName = "RandomNumberSeedService"
              /\ heap[rnss].className = "framework::RandomNumberSeedService"
              /\ heap[rnss].seedMode = "run"
              /\ heap[rnss].seed = -1
              /\ heap[rnss].tagName = "Default"
              /\ p.libraries = << <<"@CMAKE_INSTALL_PREFIX@/lib/lib", "Framework", ".so">> >>

\* A Process was constructed after two constructions of providers had failed
\* for want of one: its seed service is the third provider object.
C14_Witness ==
    /\ call.name = "Process"
    /\ ~call.raised
    /\ Len(heap) = 3
    /\ processes[lastProcess].randomNumberSeedService = 3
    /\ heap[3].seedMode = "run"

-----------------------------------------------------------------------------
(* The modes of the seed service *)

\* C15: on a constructed RandomNumberSeedService, run(), external(seed) and
\* time() set seedMode to 'run', 'external', 'time'; external sets seed to its
\* argument, run and time leave seed alone; no other call changes either; a
\* service just constructed has seedMode 'run' and seed -1.  So seedMode is
\* the mode of the last of these calls ('run' when there was none), always
\* one of the three, and seed is the argument of the last external() (-1 when
\* there was none).
C15_SeedModeFollowsCalls ==
    [][ /\ \A o \in 1..Len(heap) :
              IsSeedService(heap, o) =>
                 IF call'.name \in {"run", "external", "time"}
                 THEN IF call'.args[1] = o
                      THEN /\ heap'[o].seedMode = call'.name
                           /\ heap'[o].seed = IF call'.name = "external"
                                               THEN call'.args[2]
                                               ELSE heap[o].seed
                      ELSE /\ heap'[o].seedMode = heap[o].seedMode
                           /\ heap'[o].seed = heap[o].seed
                 ELSE /\ heap'[o].seedMode = heap[o].seedMode
                      /\ heap'[o].seed = heap[o].seed
        /\ \A o \in (Len(heap) + 1)..Len(heap') :
              IsSeedService(heap', o) =>
                 heap'[o].seedMode = "run" /\ heap'[o].seed = -1
        /\ \A o \in 1..Len(heap') :
              IsSeedService(heap', o) =>
                 heap'[o].seedMode \in {"run", "external", "time"} ]_vars

\* time() was called on a service after external(2): the mode is 'time', the
\* seed is still 2.
C15_Witness ==
    /\ call.name = "time"
    /\ heap[call.args[1]].seedMode = "time"
    /\ heap[call.args[1]].seed = 2

-----------------------------------------------------------------------------
(* The provider with the identity of the seed service *)

\* The provider the attribute randomNumberSeedService of the Process holds.
ServiceAttribute == processes[lastProcess].randomNumberSeedService
ServiceAttributeAfter == processes'[lastProcess'].randomNumberSeedService

IsServiceIdentity(h, o) ==
    /\ h[o].objectName = "RandomNumberSeedService"
    /\ h[o].className = "framework::RandomNumberSeedService"

\* With a Process, exactly one declared provider has the identity of the seed
\* service, and it is the first.
C20_OneServiceEntryFirst ==
    lastProcess # None =>
        /\ Len(Providers) >= 1
        /\ \A i \in 1..Len(Providers) : IsServiceIdentity(heap, Providers[i]) <=> i = 1

\* The original statement of C20: once the first entry and the attribute are
\* different objects they stay different.
C20_DifferentFromThenOn ==
    [][ (lastProcess # None /\ Providers[1] # ServiceAttribute)
        => ProvidersAfter[1] # ServiceAttributeAfter ]_vars

\* One step of a script that has a Process.
C20_Step ==
    IF lastProcess = None THEN TRUE
    ELSE /\ ServiceAttributeAfter = ServiceAttribute
         /\ IF /\ call'.name \in DeclaringCalls
               /\ ~call'.raised
               /\ IsServiceIdentity(heap', DeclaredBy(call'))
            THEN ProvidersAfter[1] = DeclaredBy(call')
            ELSE ProvidersAfter[1] = Providers[1]
         /\ (/\ call'.name \in {"run", "external", "time"}
             /\ call'.args[1] = ServiceAttribute
             /\ Providers[1] # ServiceAttribute)
            => heap'[Providers[1]] = heap[Providers[1]]

\* C20 (amended): with a Process, conditionsObjectProviders has exactly one
\* entry with the identity of the seed service and it is the first; the
\* attribute randomNumberSeedService always holds the service the Process
\* constructor made; a declaration of a provider with that identity
\* (constructing one, or declaring one again) makes that provider the first
\* entry and no other call changes the first entry, so after the construction
\* of another such provider the attribute and the entry are different objects
\* until the service of the attribute is declared again; and while they are
\* different a mode change through the attribute leaves the entry as it was.
C20_ServiceEntryAndAttribute ==
    []C20_OneServiceEntryFirst /\ [][C20_Step]_vars

\* The attribute's service was set to external(2) after another service had
\* taken its place in the list: the one in the list is still in mode 'run'.
C20_Witness ==
    /\ call.name = "external"
    /\ lastProcess # None
    /\ call.args[1] = ServiceAttribute
    /\ Providers[1] # ServiceAttribute
    /\ heap[ServiceAttribute].seedMode = "external"
    /\ heap[Providers[1]].cls = "RandomNumberSeedService"
    /\ heap[Providers[1]].seedMode = "run"

-----------------------------------------------------------------------------
(* The dump of the parameters *)

\* The attributes of a Process that hold objects or lists of objects.
ObjectKeys == {"conditionsObjectProviders", "sequence", "randomNumberSeedService"}

\* C16: parameterDump returns a mapping of every attribute of the Process
\* but 'libraries'; a plain attribute maps to its value; the lists
\* conditionsObjectProviders and sequence map element by element, in order,
\* each provider to the mapping of all its attributes and each processor to
\* the mapping of all its attributes but 'histograms'; the attribute
\* randomNumberSeedService maps to the mapping of that provider; and the call
\* changes no attribute of the Process, of a provider or of a processor.
C16_ParameterDump ==
    [][ IF call'.name = "parameterDump"
        THEN LET d == call'.ret
                 p == processes[lastProcess]
             IN  /\ ~call'.raised
                 /\ UNCHANGED <<lastProcess, processes, heap, procs>>
                 /\ DOMAIN d = DOMAIN p \ {"libraries"}
                 /\ \A k \in DOMAIN p \ (ObjectKeys \cup {"libraries"}) : d[k] = p[k]
                 /\ Len(d.sequence) = Len(p.sequence)
                 /\ \A i \in 1..Len(p.sequence) :
                       LET e == d.sequence[i]
                           q == procs[p.sequence[i]]
                       IN  /\ DOMAIN e = {"instanceName", "className"}
                           /\ e.instanceName = q.instanceName
                           /\ e.className = q.className
                 /\ Len(d.conditionsObjectProviders) = Len(p.conditionsObjectProviders)
                 /\ \A i \in 1..Len(p.conditionsObjectProviders) :
                       d.conditionsObjectProviders[i] =
                           ProviderDict(heap[p.conditionsObjectProviders[i]])
                 /\ d.randomNumberSeedService =
                       ProviderDict(heap[p.randomNumberSeedService])
        ELSE TRUE ]_vars

\* A dump of a Process with two processors in its sequence, in the order
\* opposite to their construction, the first of the sequence with a histogram:
\* the dump lists them in the order of the sequence, without histograms.
C16_Witness ==
    /\ call.name = "parameterDump"
    /\ ~call.raised
    /\ processes[lastProcess].sequence = <<2, 1>>
    /\ Len(procs[2].histograms) >= 1
    /\ procs[1].instanceName # procs[2].instanceName
    /\ Len(call.ret.sequence) = 2
    /\ call.ret.sequence[1].instanceName = procs[2].instanceName
    /\ "histograms" \notin DOMAIN call.ret.sequence[1]
    /\ "libraries" \notin DOMAIN call.ret

-----------------------------------------------------------------------------
(* The rendering of a Process over runs of the interpreter *)

\* C17: the rendering of a Process is determined by its attributes: the
\* string that str(p) returned in this run is the string that any run of the
\* interpreter, whatever the order in which it iterates a set of paths,
\* returns for a Process with these attributes, line for line, the lines of
\* 'Shared libraries to load' in the same order.
C17_RenderingDeterministic ==
    call.name = "__str__" =>
        \A order \in HashOrders : Process_str(World, lastProcess, order) = call.ret

-----------------------------------------------------------------------------
(* Process.libraries over the calls of a script *)

\* The calls that register a library, and the entry each is to append.
RegisteringCalls ==
    {"addLibrary", "addModule", "Producer", "Analyzer", "ConditionsObjectProvider"}

EntryOf(c) ==
    LET given == IF c.name \in {"addLibrary", "addModule"} THEN c.args[1] ELSE c.args[3]
    IN  IF c.name = "addLibrary" \/ (c.name \in {"Producer", "Analyzer"} /\ EndsWithSo(given))
        THEN given
        ELSE InstalledLibrary(actual_module_name(given))

\* The lines of a rendering below its line 'Shared libraries to load:'.
LibrarySection(text) ==
    LET head == CHOOSE i \in 1..Len(text) : text[i] = <<" Shared libraries to load:">>
    IN  SubSeq(text, head + 1, Len(text))

\* C19: while a script has its Process, each call of addLibrary or addModule
\* and each construction of a Producer, an Analyzer or a
\* ConditionsObjectProvider (one that replaces an equal provider too) returns
\* and appends exactly its one entry to Process.libraries, be it there
\* already; no other call changes libraries; and the rendering lists each
\* distinct path of libraries on one line, once.
C19_LibrariesAppendOnly ==
    [][ IF lastProcess # None /\ lastProcess' # None
        THEN LET old == processes[lastProcess].libraries
                 new == processes'[lastProcess'].libraries
             IN  /\ IF call'.name \in RegisteringCalls
                    THEN ~call'.raised /\ new = Append(old, EntryOf(call'))
                    ELSE new = old
                 /\ IF call'.name = "__str__"
                    THEN LET lines == LibrarySection(call'.ret)
                             paths == {old[i] : i \in 1..Len(old)}
                         IN  /\ Len(lines) = Cardinality(paths)
                             /\ {lines[i] : i \in 1..Len(lines)} =
                                    {<<"  ">> \o path : path \in paths}
                    ELSE TRUE
        ELSE TRUE ]_vars

\* A provider was constructed that replaced an equal one: the list of the
\* providers did not grow, the libraries hold the library of its module twice.
C19_Witness ==
    /\ call.name = "ConditionsObjectProvider"
    /\ ~call.raised
    /\ lastProcess # None
    /\ processes[lastProcess].conditionsObjectProviders = <<1, 3>>
    /\ processes[lastProcess].libraries =
          << <<"@CMAKE_INSTALL_PREFIX@/lib/lib", "Framework", ".so">>,
             <<"@CMAKE_INSTALL_PREFIX@/lib/lib", "Ecal", ".so">>,
             <<"@CMAKE_INSTALL_PREFIX@/lib/lib", "Ecal", ".so">> >>

-----------------------------------------------------------------------------
(* The paths of the installed data files *)

\* The installed path each of the three functions is to return.
InstalledPath(c) ==
    IF c.name = "makeBDTPath"
    THEN <<"@CMAKE_INSTALL_PREFIX@/data/Ecal/", c.args[1], ".onnx">>
    ELSE IF c.name = "makeRoCPath"
    THEN <<"@CMAKE_INSTALL_PREFIX@/data/Ecal/", c.args[1], ".csv">>
    ELSE <<"@CMAKE_INSTALL_PREFIX@/data/Ecal/cellxy.txt">>

\* C18: a call of makeBDTPath(name), makeRoCPath(name) or makeCellXYPath()
\* returns '<prefix>/data/Ecal/<name>.onnx', '<prefix>/data/Ecal/<name>.csv',
\* '<prefix>/data/Ecal/cellxy.txt' when that file exists, printing nothing;
\* when it does not exist the call prints an error and exits with status 1,
\* returning nothing.  The files are left as they are.
C18_PathIffInstalled ==
    [][ IF call'.name \in {"makeBDTPath", "makeRoCPath", "makeCellXYPath"}
           /\ call' # call
        THEN /\ fs' = fs
             /\ IF InstalledPath(call') \in fs.data
                THEN /\ ~call'.raised
                     /\ call'.exit = "no"
                     /\ call'.printed = << >>
                     /\ call'.ret = InstalledPath(call')
                ELSE /\ call'.raised
                     /\ call'.exit = "exit 1"
                     /\ call'.printed # << >>
        ELSE TRUE ]_vars

\* makeRoCPath('v14') exited: the csv file is not installed though the onnx
\* file of that name is.
C18_Witness ==
    /\ call.name = "makeRoCPath"
    /\ call.args = <<"v14">>
    /\ call.exit = "exit 1"
    /\ <<"@CMAKE_INSTALL_PREFIX@/data/Ecal/", "v14", ".onnx">> \in fs.data
    /\ <<"@CMAKE_INSTALL_PREFIX@/data/Ecal/", "v14", ".csv">> \notin fs.data

-----------------------------------------------------------------------------
(* from_file without a Process *)

\* C21: from_file compiles before it registers: called while there is no
\* Process, for a source file that exists and whose library is absent or
\* older than the source, it runs the compiler and raises, returning no
\* processor and leaving no Process.  When the compiler exits 0 the library is
\* on disk, written at the time of the call, and the constructor of the
\* processor has run after it (the object has been made) and raised for the
\* missing Process; when the compiler exits nonzero the files and the
\* processors are as they were.
C21_CompilePrecedesRegistration ==
    [][ (/\ call'.name = "from_file"
         /\ lastProcess = None
         /\ fs.srcExists
         /\ (~fs.libExists \/ fs.srcMtime > fs.libMtime))
        => /\ call'.sub # "not run"
           /\ call'.raised
           /\ call'.ret = None
           /\ lastProcess' = None
           /\ processes' = processes
           /\ call'.sub = "exit 0" =>
                  /\ fs' = [fs EXCEPT !.libExists = TRUE, !.libMtime = now]
                  /\ Len(procs') = Len(procs) + 1
                  /\ SubSeq(procs', 1, Len(procs)) = procs
           /\ call'.sub = "exit 1" =>
                  /\ fs' = fs
                  /\ procs' = procs
      ]_vars

\* from_file raised with no Process after the compiler had exited 0: the
\* library, once older than the source, is now as new as the clock.
C21_Witness ==
    /\ call.name = "from_file"
    /\ call.raised
    /\ call.sub = "exit 0"
    /\ lastProcess = None
    /\ fs.srcExists /\ fs.libExists
    /\ fs.srcMtime > 0
    /\ fs.libMtime = now
    /\ fs.libMtime >= fs.srcMtime
    /\ Len(procs) >= 1

=============================================================================
